---- MODULE Spec2Model ----
(***************************************************************************)
(* Camera lifecycle and scan loop of static/js/qr.js.                      *)
(*                                                                         *)
(* The script runs on the browser's single task queue.  Every action below *)
(* is one task: a timer callback, a UI event handler, an animation-frame   *)
(* callback, or the continuation of an async function after one of its     *)
(* awaits settles (run up to its next await).  Each startCameraWithRetry   *)
(* invocation is a coroutine identified by a call id.                      *)
(*                                                                         *)
(* Wall-clock time is the variable now.  It moves when a task that reads   *)
(* the clock finds time has passed, and when a timer callback runs: a      *)
(* callback never runs before its delay has passed, and pending timers run *)
(* in the order of their due times.  The awaited browser operations take   *)
(* an unknown time.                                                        *)
(***************************************************************************)
EXTENDS Integers, Sequences, FiniteSets, Bags

(* ---------------- SCAN_CONFIG and other literals of the source --------- *)
SCAN_INTERVAL == 300
SCAN_COOLDOWN == 2000
MAX_RETRIES == 3
CAMERA_RETRY_DELAY == 1000
SCAN_TIMEOUT == 300000
VIDEO_READY_TIMEOUT == 10000
RESTART_DELAY == 3000
AUTO_START_DELAY == 1000
MaxQRLength == 1000
MinCodeLength == 5
MaxCodeLength == 50

(* ---------------- bounds of the exploration ---------------------------- *)
\* A run is explored within one of three budgets: overlapping starts, a
\* session of scans, or a chain of starts long enough to use up the retries
\* and to start again after that.
MaxCalls == 3        \* startCameraWithRetry invocations when starts overlap
MaxInFlight == 2     \* coroutines suspended at once
MaxScans == 2        \* processQRCode invocations in a session of scans
MaxTicks == 1        \* clock readings of a run that find time has passed
MaxChainCalls == 4   \* startCameraWithRetry invocations in a chain of starts
MaxRestarts == 1     \* further invocations once the retries are used up
PageLoadTime == 5000 \* Date.now() when initializeScanner runs

Budgets ==
    { [calls |-> MaxCalls, inFlight |-> MaxInFlight, scans |-> 0, ticks |-> 0,
       restarts |-> 0],
      [calls |-> MaxCalls - 1, inFlight |-> MaxInFlight, scans |-> MaxScans,
       ticks |-> MaxTicks, restarts |-> 0],
      [calls |-> MaxChainCalls, inFlight |-> 1, scans |-> 0, ticks |-> 0,
       restarts |-> MaxRestarts] }

MaxOf(a, b) == IF a >= b THEN a ELSE b
CallIds == 1..MaxOf(MaxCalls, MaxChainCalls + MaxRestarts)

(* ---------------- characters and strings (sequences of characters) ----- *)
Digits == {"0", "1", "2", "3", "4", "5", "6", "7", "8", "9"}
UpperCase == {"A", "B", "C", "D", "E", "F", "G", "H", "I", "J", "K", "L", "M",
              "N", "O", "P", "Q", "R", "S", "T", "U", "V", "W", "X", "Y", "Z"}
LowerCase == {"a", "b", "c", "d", "e", "f", "g", "h", "i", "j", "k", "l", "m",
              "n", "o", "p", "q", "r", "s", "t", "u", "v", "w", "x", "y", "z"}
WhiteSpace == {" ", "\t", "\n"}

\* String.prototype.toLowerCase, on the characters the model uses
LowerOf(ch) ==
    CASE ch = "B" -> "b" [] ch = "C" -> "c" [] ch = "F" -> "f"
      [] ch = "R" -> "r" [] ch = "E" -> "e" [] ch = "T" -> "t"
      [] OTHER -> ch

toLowerCase(str) == [i \in 1..Len(str) |-> LowerOf(str[i])]

\* String.prototype.includes
includes(str, sub) ==
    \E i \in 1..(Len(str) - Len(sub) + 1) : SubSeq(str, i, i + Len(sub) - 1) = sub

\* String.prototype.trim
RECURSIVE trimStart(_)
trimStart(str) ==
    IF Len(str) > 0 /\ Head(str) \in WhiteSpace THEN trimStart(Tail(str)) ELSE str

RECURSIVE trimEnd(_)
trimEnd(str) ==
    IF Len(str) > 0 /\ str[Len(str)] \in WhiteSpace
    THEN trimEnd(SubSeq(str, 1, Len(str) - 1)) ELSE str

trim(str) == trimEnd(trimStart(str))

(* ---------------- device enumeration ----------------------------------- *)
LabelBack == <<"B", "a", "c", "k">>
LabelFront == <<"F", "r", "o", "n", "t">>
LabelCam2 == <<"c", "a", "m", "2">>
LabelHidden == << >>     \* labels are empty until permission is granted

Cam(label) == [kind |-> "videoinput", label |-> label]
Mic == [kind |-> "audioinput", label |-> << >>]

\* device lists navigator.mediaDevices.enumerateDevices() can resolve with
DeviceLists ==
    { <<Mic>>,
      <<Mic, Cam(LabelHidden)>>,
      <<Cam(LabelFront)>>,
      <<Cam(LabelFront), Cam(LabelBack)>>,
      <<Cam(LabelFront), Cam(LabelCam2)>> }
\* the outcomes of enumerateDevices(): a list, or a rejection
EnumResults ==
    [ok : {TRUE}, devices : DeviceLists] \cup [ok : {FALSE}, devices : {<< >>}]

isRearLabel(label) ==
    \/ includes(toLowerCase(label), <<"b", "a", "c", "k">>)
    \/ includes(toLowerCase(label), <<"r", "e", "a", "r">>)
    \/ includes(toLowerCase(label),
                <<"e", "n", "v", "i", "r", "o", "n", "m", "e", "n", "t">>)
    \/ includes(label, <<"2">>)

isVideoInput(device) == device.kind = "videoinput"

\* getBestCamera: the facing mode and whether a device was selected
getBestCamera(result) ==
    IF ~result.ok
    THEN [device |-> "null", facingMode |-> "environment"]
    ELSE LET videoDevices == SelectSeq(result.devices, isVideoInput)
             rear == {i \in 1..Len(videoDevices) : isRearLabel(videoDevices[i].label)}
         IN IF Len(videoDevices) = 0
            THEN [device |-> "null", facingMode |-> "environment"]
            ELSE IF rear # {}
            THEN [device |-> "rear", facingMode |-> "environment"]
            ELSE [device |-> "first", facingMode |-> "user"]

(* ---------------- payload validation ----------------------------------- *)
StudentPrefix == <<"S", "T", "U", "D", "E", "N", "T", "_">>

\* /^STUDENT_\d+$/
matchesStudent(str) ==
    /\ Len(str) > Len(StudentPrefix)
    /\ SubSeq(str, 1, Len(StudentPrefix)) = StudentPrefix
    /\ \A i \in (Len(StudentPrefix) + 1)..Len(str) : str[i] \in Digits

\* /^[A-Za-z0-9_\-]{5,50}$/
matchesCode(str) ==
    /\ Len(str) >= MinCodeLength
    /\ Len(str) <= MaxCodeLength
    /\ \A i \in 1..Len(str) :
          str[i] \in UpperCase \cup LowerCase \cup Digits \cup {"_", "-"}

validateUncapped(qrString) ==
    LET cleanString == trim(qrString)
        isValid == matchesStudent(cleanString) \/ matchesCode(cleanString)
    IN [valid |-> isValid, cleanData |-> cleanString,
        reason |-> IF isValid THEN "Valid" ELSE "Unexpected QR code format"]

validateQRCode(qrString) ==
    IF Len(qrString) = 0
    THEN [valid |-> FALSE, cleanData |-> << >>, reason |-> "Invalid QR format"]
    ELSE LET cleanString == trim(qrString)
         IN IF Len(cleanString) = 0
            THEN [valid |-> FALSE, cleanData |-> << >>, reason |-> "Empty QR code"]
            ELSE IF Len(cleanString) > MaxQRLength
            THEN [valid |-> FALSE, cleanData |-> << >>, reason |-> "QR code too long"]
            ELSE LET isValid == matchesStudent(cleanString) \/ matchesCode(cleanString)
                 IN [valid |-> isValid, cleanData |-> cleanString,
                     reason |-> IF isValid THEN "Valid"
                                ELSE "Unexpected QR code format"]

Student42 == <<"S", "T", "U", "D", "E", "N", "T", "_", "4", "2">>
ShortAb == <<"a", "b">>
Student42Line == Student42 \o <<"\n">>

\* payloads the decoder (code.data) or the manual input can deliver
Payloads == {Student42, ShortAb, Student42Line}
ManualTexts == {Student42, <<" ">> \o Student42, <<" ">>}

\* what one scan tick sees: video not ready, jsQR returning null, jsQR
\* throwing, or jsQR returning a code with this data
Frames ==
    [kind : {"notready", "none", "throw"}, data : {<< >>}]
        \cup [kind : {"code"}, data : Payloads]

\* wall-clock time consumed by the synchronous drawImage/getImageData/jsQR/
\* stopCamera between scanQR's and processQRCode's Date.now()
SyncDelays == {0, SCAN_COOLDOWN}

\* time that has passed since the previous Date.now() when a task reads the
\* clock: less than the scan interval, or a scan interval, or a cooldown
TimeSteps == {0, SCAN_INTERVAL, SCAN_COOLDOWN}

\* outcomes of the awaited browser operations
\* ("prompt" and "unknown" are handled like "granted")
PermissionStates == {"granted", "denied"}
GumErrors == {"NotAllowedError", "NotReadableError"}
ReadyErrors == {"Video loading timeout", "video error"}

(* ---------------- state ------------------------------------------------ *)
VARIABLES
    videoStream,        \* 0 (null) or the id of the stream the script holds
    currentFacingMode,
    isScanning,
    animationFrame,     \* 0 (null) or the loop whose handle was stored last
    lastScanTime,
    cameraRetryCount,
    scanTimeout,        \* TRUE iff the handle variable is non-null
    scanStats,
    cameraStatus,       \* type of the last updateCameraStatus
    jsQRLoaded,         \* typeof jsQR !== 'undefined'
    now,                \* the clock
    ticks,              \* clock readings so far that found time had passed
    openStreams,        \* streams whose tracks have not been stopped
    srcObject,          \* video.srcObject (0 is null)
    calls,              \* startCameraWithRetry coroutines
    nCalls,             \* coroutines created so far
    timers,             \* pending setTimeout callbacks: a bag of [kind, due]
    rafPending,         \* loops with a pending requestAnimationFrame callback
    retriesScheduled,   \* retry timers scheduled since cameraRetryCount was 0
    decoded,            \* history: codes jsQR returned, with the time
    dispatched,         \* history: fetchStudentData calls, with the time
    observed,           \* history: what the jsQR and processQRCode calls saw
    budget,             \* the budget of this run
    qrInput,            \* the argument of a validateQRCode call made on its own
    qrResult            \* what that call returned

scannerVars ==
    <<videoStream, currentFacingMode, isScanning, animationFrame,
      lastScanTime, cameraRetryCount, scanTimeout, scanStats, cameraStatus,
      jsQRLoaded, now, ticks, openStreams, srcObject, calls, nCalls,
      timers, rafPending, retriesScheduled, decoded, dispatched, observed,
      budget>>

vars == <<scannerVars, qrInput, qrResult>>

NoCall == [pc |-> "none", stream |-> 0, readyDue |-> 0, switchFrom |-> "none"]
DoneCall == [pc |-> "done", stream |-> 0, readyDue |-> 0, switchFrom |-> "none"]

\* lastDecodeAt: the clock reading of the scanQR run that called jsQR last (0:
\* none yet); minDecodeGap: the smallest time between two consecutive jsQR
\* calls (-1: fewer than two calls); decodedWhileIdle: jsQR was called with
\* isScanning false; processedWhileScanning: processQRCode was called with
\* isScanning true
NothingObserved ==
    [lastDecodeAt |-> 0, minDecodeGap |-> -1, decodedWhileIdle |-> FALSE,
     processedWhileScanning |-> FALSE]

Timer(kind, due) == [kind |-> kind, due |-> due]
setTimeout(s, kind, delay) ==
    [s EXCEPT !.timers = @ (+) SetToBag({Timer(kind, s.now + delay)})]
Pending(kind) == {t \in BagToSet(timers) : t.kind = kind}

NotValidated == [valid |-> FALSE, cleanData |-> << >>, reason |-> "not called"]

\* the state after initializeScanner has run on the scan page
PageLoaded ==
    /\ videoStream = 0
    /\ currentFacingMode = "environment"
    /\ isScanning = FALSE
    /\ animationFrame = 0
    /\ lastScanTime = 0
    /\ cameraRetryCount = 0
    /\ scanTimeout = FALSE
    /\ scanStats = [totalScans |-> 0, successfulScans |-> 0, failedScans |-> 0,
                    cameraStarts |-> 0, cameraErrors |-> 0,
                    scanStartTime |-> PageLoadTime]
    /\ cameraStatus = "none"
    /\ jsQRLoaded \in BOOLEAN
    /\ now = PageLoadTime
    /\ ticks = 0
    /\ openStreams = {}
    /\ srcObject = 0
    /\ calls = [c \in CallIds |-> NoCall]
    /\ nCalls = 0
    /\ timers = SetToBag({Timer("autoStart", PageLoadTime + AUTO_START_DELAY)})
    /\ rafPending = {}
    /\ retriesScheduled = 0
    /\ decoded = << >>
    /\ dispatched = << >>
    /\ observed = NothingObserved

ScannerInit ==
    /\ PageLoaded
    /\ budget \in Budgets

Init ==
    /\ ScannerInit
    /\ qrInput = << >>
    /\ qrResult = NotValidated

\* the current state as one record, so that a task's statements compose
St ==
    [videoStream |-> videoStream, currentFacingMode |-> currentFacingMode,
     isScanning |-> isScanning, animationFrame |-> animationFrame,
     lastScanTime |-> lastScanTime, cameraRetryCount |-> cameraRetryCount,
     scanTimeout |-> scanTimeout, scanStats |-> scanStats,
     cameraStatus |-> cameraStatus, jsQRLoaded |-> jsQRLoaded, now |-> now,
     ticks |-> ticks, openStreams |-> openStreams, srcObject |-> srcObject,
     calls |-> calls, nCalls |-> nCalls, timers |-> timers,
     rafPending |-> rafPending, retriesScheduled |-> retriesScheduled,
     decoded |-> decoded, dispatched |-> dispatched, observed |-> observed]

Commit(s) ==
    /\ videoStream' = s.videoStream
    /\ currentFacingMode' = s.currentFacingMode
    /\ isScanning' = s.isScanning
    /\ animationFrame' = s.animationFrame
    /\ lastScanTime' = s.lastScanTime
    /\ cameraRetryCount' = s.cameraRetryCount
    /\ scanTimeout' = s.scanTimeout
    /\ scanStats' = s.scanStats
    /\ cameraStatus' = s.cameraStatus
    /\ jsQRLoaded' = s.jsQRLoaded
    /\ now' = s.now
    /\ ticks' = s.ticks
    /\ openStreams' = s.openStreams
    /\ srcObject' = s.srcObject
    /\ calls' = s.calls
    /\ nCalls' = s.nCalls
    /\ timers' = s.timers
    /\ rafPending' = s.rafPending
    /\ retriesScheduled' = s.retriesScheduled
    /\ decoded' = s.decoded
    /\ dispatched' = s.dispatched
    /\ observed' = s.observed
    /\ UNCHANGED <<budget, qrInput, qrResult>>

(* ---------------- the functions of qr.js, as state transformers -------- *)
\* scanStats.recordScan(success)
recordScan(s, success) ==
    [s EXCEPT !.scanStats.totalScans = @ + 1,
              !.scanStats.successfulScans = IF success THEN @ + 1 ELSE @,
              !.scanStats.failedScans = IF success THEN @ ELSE @ + 1]

\* clearTimeout(scanTimeout) removes the auto-stop timer if it is still pending
stopScanTimeout(s) ==
    IF s.scanTimeout
    THEN [s EXCEPT !.timers = [t \in {u \in DOMAIN @ : u.kind # "scanTimeout"}
                                  |-> @[t]],
                   !.scanTimeout = FALSE]
    ELSE s

startScanTimeout(s) ==
    [setTimeout(stopScanTimeout(s), "scanTimeout", SCAN_TIMEOUT)
        EXCEPT !.scanTimeout = TRUE]

stopCameraSkipped(s) == s

stopCamera(s) ==
    IF ~s.isScanning
    THEN s
    ELSE LET s1 == stopScanTimeout([s EXCEPT !.isScanning = FALSE])
             s2 == IF s1.animationFrame # 0
                   THEN [s1 EXCEPT !.rafPending = @ \ {s1.animationFrame},
                                   !.animationFrame = 0]
                   ELSE s1
             s3 == IF s2.videoStream # 0
                   THEN [s2 EXCEPT !.openStreams = @ \ {s2.videoStream},
                                   !.videoStream = 0]
                   ELSE s2
         IN [s3 EXCEPT !.srcObject = 0, !.cameraStatus = "info"]

handleCameraError(s, error) ==
    [s EXCEPT !.scanStats.cameraErrors = @ + 1, !.cameraStatus = "error"]

\* the synchronous start of startCameraWithRetry, up to its first await
startCameraWithRetry(s, switchFrom) ==
    LET c == s.nCalls + 1
    IN [s EXCEPT !.nCalls = c,
                 !.calls[c] = [pc |-> "permission", stream |-> 0, readyDue |-> 0,
                               switchFrom |-> switchFrom]]

\* the catch block of startCameraWithRetry
retryableBelowMax(count) == count < MAX_RETRIES
retryableOnceMore(count) == count <= MAX_RETRIES + 1

retryable(count) == count <= MAX_RETRIES

catchStartError(s, c, error) ==
    LET s1 == [s EXCEPT !.calls[c] = DoneCall, !.cameraRetryCount = @ + 1]
    IN IF retryable(s1.cameraRetryCount)
       THEN [setTimeout(s1, "retry", CAMERA_RETRY_DELAY * s1.cameraRetryCount)
                EXCEPT !.cameraStatus = "loading", !.retriesScheduled = @ + 1]
       ELSE handleCameraError(s1, error)

\* await startCamera() returned normally: cameraRetryCount = 0
startSucceeded(s, c) ==
    [s EXCEPT !.calls[c] = DoneCall, !.cameraRetryCount = 0,
              !.retriesScheduled = 0]

restartNever(s) == recordScan(s, FALSE)

restartCamera(s) ==
    setTimeout(recordScan(s, FALSE), "restart", RESTART_DELAY)

fetchStudentData(s, cleanData) ==
    [s EXCEPT !.dispatched = Append(@, [data |-> cleanData, at |-> s.now])]

inCooldown(s) == s.now - s.lastScanTime < SCAN_COOLDOWN

processUnvalidated(s0, qrString) ==
    IF inCooldown(s0)
    THEN restartCamera(s0)
    ELSE fetchStudentData(recordScan([s0 EXCEPT !.lastScanTime = s0.now], TRUE),
                          qrString)

processQRCode(s0, qrString) ==
    LET validation == validateQRCode(qrString)
        s == [s0 EXCEPT !.observed.processedWhileScanning = @ \/ s0.isScanning]
    IN IF ~validation.valid
       THEN restartCamera(s)
       ELSE IF inCooldown(s)
       THEN restartCamera(s)
       ELSE fetchStudentData(recordScan([s EXCEPT !.lastScanTime = s.now], TRUE),
                             validation.cleanData)

requestScanFrame(s, loop) ==
    [s EXCEPT !.rafPending = @ \cup {loop}, !.animationFrame = loop]

throttledNever(s) == s.now < s.lastScanTime

throttled(s) == s.now - s.lastScanTime < SCAN_INTERVAL

\* the call of jsQR (line 272) in a scanQR run that read the clock at s.now
jsQR(s) ==
    LET gap == s.now - s.observed.lastDecodeAt
    IN [s EXCEPT !.observed.lastDecodeAt = s.now,
                 !.observed.minDecodeGap =
                     IF s.observed.lastDecodeAt = 0 THEN @
                     ELSE IF @ = -1 \/ gap < @ THEN gap ELSE @,
                 !.observed.decodedWhileIdle = @ \/ ~s.isScanning]

\* one run of the scanQR closure of call `loop`; delay is the time the
\* synchronous decode takes
scanQR(s, loop, frame, delay) ==
    IF ~s.isScanning
    THEN s
    ELSE IF throttled(s)
    THEN requestScanFrame(s, loop)
    ELSE LET s1 == [s EXCEPT !.lastScanTime = s.now]
         IN IF frame.kind = "notready"
            THEN requestScanFrame(s1, loop)
            ELSE IF frame.kind = "code"
            THEN LET s2 == [jsQR(s1) EXCEPT
                              !.decoded = Append(@, [data |-> frame.data,
                                                     at |-> s1.now]),
                              !.now = @ + delay]
                 IN processQRCode(stopCamera(s2), frame.data)
            ELSE requestScanFrame(jsQR(s1), loop)

(* ---------------- startCamera, from one await to the next -------------- *)
\* checkCameraPermissions settled; startCamera runs up to await getBestCamera()
permissionSettled(s, c, permissionState) ==
    IF permissionState = "denied"
    THEN handleCameraError([s EXCEPT !.calls[c] = DoneCall], "Permission denied")
    ELSE IF s.isScanning
    THEN startSucceeded(s, c)
    ELSE IF ~s.jsQRLoaded
    THEN startSucceeded([s EXCEPT !.cameraStatus = "error"], c)
    ELSE [s EXCEPT !.cameraStatus = "loading",
                   !.scanStats.cameraStarts = @ + 1,
                   !.calls[c].pc = "getBestCamera"]

\* getBestCamera returned; startCamera runs up to await getUserMedia()
cameraChosen(s, c, result) ==
    [s EXCEPT !.currentFacingMode = getBestCamera(result).facingMode,
              !.calls[c].pc = "getUserMedia"]

\* getUserMedia resolved with a new stream (named after the call); startCamera
\* runs up to the await of the readiness promise
streamAcquired(s, c) ==
    [s EXCEPT !.openStreams = @ \cup {c},
              !.videoStream = c,
              !.srcObject = c,
              !.calls[c].stream = c,
              !.calls[c].readyDue = s.now + VIDEO_READY_TIMEOUT,
              !.calls[c].pc = "videoReady"]

\* the readiness promise resolved; startCamera runs up to the second
\* await enumerateDevices()
videoReady(s, c) ==
    [s EXCEPT !.isScanning = TRUE,
              !.cameraStatus = "success",
              !.calls[c].pc = "enumerateDevices"]

\* the readiness promise rejected: by the 10 s timer, or by video.onerror or
\* play() at any time
videoNotReady(s, c, error) ==
    catchStartError(
        IF error = "Video loading timeout" /\ s.now < s.calls[c].readyDue
        THEN [s EXCEPT !.now = s.calls[c].readyDue] ELSE s,
        c, error)

\* the second enumerateDevices resolved: arm the auto-stop timer, run scanQR
\* once, return to startCameraWithRetry
scanStarted(s, c, frame, delay) ==
    startSucceeded(scanQR(startScanTimeout(s), c, frame, delay), c)

(* ---------------- actions ---------------------------------------------- *)
InFlight == {c \in CallIds : calls[c].pc \notin {"none", "done"}}
CanStart ==
    /\ Cardinality(InFlight) < budget.inFlight
    /\ nCalls < budget.calls
                 + (IF cameraRetryCount > MAX_RETRIES THEN budget.restarts ELSE 0)
CanScan(frame, delay) ==
    IF frame.kind = "code" THEN scanStats.totalScans < budget.scans ELSE delay = 0
At(c, pc) == calls[c].pc = pc
CanPass(d) == d > 0 => ticks < budget.ticks

\* the state in which a task runs that reads the clock d after the last reading
After(d) == IF d > 0 THEN [St EXCEPT !.now = @ + d, !.ticks = @ + 1] ELSE St

\* pending timers run in the order of their due times
IsNext(t) == \A u \in BagToSet(timers) : t.due <= u.due

\* the state in which the callback of timer t runs
Fired(t) ==
    [St EXCEPT !.timers = @ (-) SetToBag({t}),
               !.now = IF @ < t.due THEN t.due ELSE @]

\* initializeScanner's setTimeout callback
AutoStart ==
    \E t \in Pending("autoStart") :
        /\ IsNext(t)
        /\ CanStart
        /\ Commit(startCameraWithRetry(Fired(t), "none"))

\* window.startCamera: the Start button
UserStart ==
    /\ CanStart
    /\ Commit(startCameraWithRetry(St, "none"))

\* window.stopCamera: the Stop button, or the page becoming hidden (called
\* when isScanning is false, stopCamera returns at once: a stuttering step)
UserStop ==
    /\ isScanning
    /\ Commit(stopCamera(St))

SwitchCamera ==
    /\ isScanning
    /\ CanStart
    /\ LET s1 == stopCamera(St)
           s2 == [s1 EXCEPT !.cameraStatus = "loading",
                            !.currentFacingMode =
                                IF @ = "environment" THEN "user" ELSE "environment"]
       IN Commit(startCameraWithRetry(s2, currentFacingMode))

RecoverCamera ==
    /\ CanStart
    /\ Commit(startCameraWithRetry(stopCamera(St), "none"))

SubmitManualCode ==
    \E text \in ManualTexts, d \in TimeSteps :
        /\ scanStats.totalScans < budget.scans
        /\ CanPass(d)
        /\ Len(trim(text)) > 0
        /\ Commit(processQRCode(stopCamera(After(d)), trim(text)))

PermissionSettled ==
    \E c \in CallIds, permissionState \in PermissionStates :
        /\ At(c, "permission")
        /\ Commit(permissionSettled(St, c, permissionState))

CameraChosen ==
    \E c \in CallIds, result \in EnumResults :
        /\ At(c, "getBestCamera")
        /\ Commit(cameraChosen(St, c, result))

StreamAcquired ==
    \E c \in CallIds :
        /\ At(c, "getUserMedia")
        /\ Commit(streamAcquired(St, c))

AcquisitionRejected ==
    \E c \in CallIds, error \in GumErrors :
        /\ At(c, "getUserMedia")
        /\ Commit(catchStartError(St, c, error))

VideoReady ==
    \E c \in CallIds :
        /\ At(c, "videoReady")
        /\ Commit(videoReady(St, c))

VideoNotReady ==
    \E c \in CallIds, error \in ReadyErrors :
        /\ At(c, "videoReady")
        /\ Commit(videoNotReady(St, c, error))

ScanStarted ==
    \E c \in CallIds, frame \in Frames, delay \in SyncDelays, d \in TimeSteps :
        /\ At(c, "enumerateDevices")
        /\ CanScan(frame, delay)
        /\ CanPass(d)
        /\ Commit(scanStarted(After(d), c, frame, delay))

EnumerationRejected ==
    \E c \in CallIds :
        /\ At(c, "enumerateDevices")
        /\ Commit(catchStartError(St, c, "enumerateDevices"))

\* a requestAnimationFrame callback
ScanTick ==
    \E loop \in rafPending, frame \in Frames, delay \in SyncDelays, d \in TimeSteps :
        /\ CanScan(frame, delay)
        /\ CanPass(d)
        /\ Commit(scanQR([After(d) EXCEPT !.rafPending = @ \ {loop}],
                         loop, frame, delay))

\* the setTimeout callback of startCameraWithRetry's catch block
RetryTimer ==
    \E t \in Pending("retry") :
        /\ IsNext(t)
        /\ CanStart
        /\ Commit(startCameraWithRetry(Fired(t), "none"))

\* the setTimeout callback of restartCamera
RestartTimer ==
    \E t \in Pending("restart") :
        /\ IsNext(t)
        /\ isScanning \/ CanStart
        /\ Commit(IF ~isScanning THEN startCameraWithRetry(Fired(t), "none")
                  ELSE Fired(t))

\* the setTimeout callback of startScanTimeout
ScanTimeout ==
    \E t \in Pending("scanTimeout") :
        /\ IsNext(t)
        /\ Commit(stopCamera(Fired(t)))

Next ==
    \/ AutoStart
    \/ UserStart
    \/ UserStop
    \/ SwitchCamera
    \/ RecoverCamera
    \/ SubmitManualCode
    \/ PermissionSettled
    \/ CameraChosen
    \/ StreamAcquired
    \/ AcquisitionRejected
    \/ VideoReady
    \/ VideoNotReady
    \/ ScanStarted
    \/ EnumerationRejected
    \/ ScanTick
    \/ RetryTimer
    \/ RestartTimer
    \/ ScanTimeout

Spec == Init /\ [][Next]_vars

(* ---------------- validateQRCode on its own ---------------------------- *)
\* strings validateQRCode is called with: white space, then a prefix, then a
\* run of one character, then white space
Run(ch, n) == [i \in 1..n |-> ch]
Student12345 == StudentPrefix \o <<"1", "2", "3", "4", "5">>
InputPrefixes ==
    { << >>, StudentPrefix, <<"S", "T", "U", "D", "E", "N", "T">>,
      <<"s", "t", "u", "d", "e", "n", "t", "_">> }
InputChars == {"7", "a", "Z", "-", "_", "!"}
RunLengths == {0, 1, 4, 5, 42, 43, 50, 51, 992, 993, 1000, 1001}
BlankRunLengths == {1, 5}
InputPads == { << >>, <<" ">>, <<"\n", "\t">> }
QRInputs ==
    { left \o prefix \o Run(ch, n) \o right :
        left \in InputPads, prefix \in InputPrefixes, ch \in InputChars,
        n \in RunLengths, right \in InputPads }
        \cup { prefix \o Run(" ", n) \o right :
                 prefix \in InputPrefixes, n \in BlankRunLengths,
                 right \in {<< >>, <<"7">>} }
        \cup {Student12345, ShortAb}

ValidateInit ==
    /\ ScannerInit
    /\ jsQRLoaded
    /\ budget.scans = MaxScans
    /\ qrInput \in QRInputs
    /\ qrResult = NotValidated

Validate ==
    /\ qrResult = NotValidated
    /\ qrResult' = validateQRCode(qrInput)
    /\ UNCHANGED <<scannerVars, qrInput>>

ValidateNext == Validate

ValidateSpec == ValidateInit /\ [][ValidateNext]_vars

(* ---------------- restarts after a rejected payload -------------------- *)
\* The runs in which every timer callback runs and every start succeeds: jsQR
\* is loaded, the permission is not denied, getUserMedia resolves and the
\* video becomes ready.  The only starts are the auto-start and those of
\* restartCamera's timer, one call for each.
RestartBudget ==
    [calls |-> 1 + MaxScans, inFlight |-> MaxInFlight, scans |-> MaxScans,
     ticks |-> MaxTicks, restarts |-> 0]

RestartInit ==
    /\ PageLoaded
    /\ jsQRLoaded
    /\ budget = RestartBudget
    /\ qrInput = << >>
    /\ qrResult = NotValidated

PermissionGranted ==
    \E c \in CallIds :
        /\ At(c, "permission")
        /\ Commit(permissionSettled(St, c, "granted"))

RestartNext ==
    \/ AutoStart
    \/ UserStop
    \/ SubmitManualCode
    \/ PermissionGranted
    \/ CameraChosen
    \/ StreamAcquired
    \/ VideoReady
    \/ ScanStarted
    \/ ScanTick
    \/ RestartTimer
    \/ ScanTimeout

RestartSpec ==
    /\ RestartInit
    /\ [][RestartNext]_vars
    /\ WF_vars(AutoStart)
    /\ WF_vars(RestartTimer)
    /\ WF_vars(PermissionGranted)
    /\ WF_vars(CameraChosen)
    /\ WF_vars(StreamAcquired)
    /\ WF_vars(VideoReady)
    /\ WF_vars(ScanStarted)

(* ---------------- properties -------------------------------------------- *)
Min(a, b) == IF a <= b THEN a ELSE b
RetryTimerFor(count, at) == Timer("retry", at + CAMERA_RETRY_DELAY * count)
CatchStep == cameraRetryCount' = cameraRetryCount + 1

\* C1: in every reachable state a hardware stream is open if and only if the
\* session is Active (isScanning).
C1_StreamOpenIffActive == (openStreams # {}) <=> isScanning

\* C2: at most one hardware stream is open at any time.
C2_AtMostOneStream == Cardinality(openStreams) <= 1

\* C3: when startCamera fails while waiting for the video to become ready
\* (the call leaves the readiness wait through the catch block), no hardware
\* stream is open once the failure has been handed to the retry wrapper.
C3_NoStreamAfterReadinessFailure ==
    [][\A c \in CallIds :
          (calls[c].pc = "videoReady" /\ calls'[c].pc = "done")
              => openStreams' = {}]_vars

\* C4: of two valid identical payloads decoded within SCAN_COOLDOWN of each
\* other, exactly one is handed to fetchStudentData.
C4_OneDispatchPerCooldown ==
    \A i, j \in 1..Len(decoded) :
        (/\ i < j
         /\ decoded[i].data = decoded[j].data
         /\ validateQRCode(decoded[i].data).valid
         /\ decoded[j].at - decoded[i].at < SCAN_COOLDOWN)
            => Cardinality({k \in 1..Len(dispatched) :
                              /\ dispatched[k].data =
                                     validateQRCode(decoded[i].data).cleanData
                              /\ dispatched[k].at >= decoded[i].at}) = 1

\* C5: in a fresh session (no scan processed yet), the step in which the scan
\* loop decodes "STUDENT_42" hands that payload to fetchStudentData exactly
\* once, leaves the camera stopped and the success counter at 1.
C5_EndToEnd ==
    [][(/\ decoded = << >>
        /\ scanStats.totalScans = 0
        /\ Len(decoded') = 1
        /\ decoded'[1].data = Student42)
           => (/\ Len(dispatched') = 1
               /\ dispatched'[1].data = Student42
               /\ ~isScanning'
               /\ scanStats'.successfulScans = 1)]_vars

\* C6: when the start issued by switchCamera has made the session Active, the
\* facing preference is flipped relative to its value before the switch.
C6_SwitchFlipsFacing ==
    \A c \in CallIds :
        (/\ calls[c].switchFrom # "none"
         /\ calls[c].pc = "enumerateDevices"
         /\ isScanning)
            => currentFacingMode # calls[c].switchFrom

\* C7 (as claimed): after 3 consecutive failed starts the session is in the
\* terminal Error state and no retry is pending.
C7_ErrorAfterThreeFailures ==
    cameraRetryCount = MAX_RETRIES
        => (cameraStatus = "error" /\ Pending("retry") = {})

\* C7 (amended): each of the first MAX_RETRIES consecutive failed starts
\* schedules one retry, CAMERA_RETRY_DELAY times the attempt number later, and
\* reports no error; the failure after that (the 4th: the first attempt plus 3
\* retries) calls handleCameraError and schedules nothing, so exactly
\* MAX_RETRIES retries have been scheduled when the Error state is reached.
C7_RetryBudget ==
    /\ [](retriesScheduled = Min(cameraRetryCount, MAX_RETRIES))
    /\ [][CatchStep =>
            IF cameraRetryCount' <= MAX_RETRIES
            THEN /\ timers' = timers (+) SetToBag({RetryTimerFor(cameraRetryCount',
                                                                 now')})
                 /\ scanStats'.cameraErrors = scanStats.cameraErrors
                 /\ cameraStatus' = "loading"
            ELSE /\ timers' = timers
                 /\ scanStats'.cameraErrors = scanStats.cameraErrors + 1
                 /\ cameraStatus' = "error"]_vars

C7_Witness ==
    /\ cameraRetryCount = MAX_RETRIES + 1
    /\ retriesScheduled = MAX_RETRIES
    /\ scanStats.cameraStarts = MAX_RETRIES + 1
    /\ scanStats.cameraErrors = 1
    /\ cameraStatus = "error"
    /\ Pending("retry") = {}

\* C8 (as claimed): the retry counter never exceeds MAX_RETRIES.
C8_RetryCountAtMostMax == cameraRetryCount <= MAX_RETRIES

\* C8 (amended): the retry counter exceeds MAX_RETRIES only by failures that
\* were escalated: every failure that leaves it above the maximum has called
\* handleCameraError.
C8_AboveMaxOnlyEscalated ==
    cameraRetryCount > MAX_RETRIES
        => scanStats.cameraErrors >= cameraRetryCount - MAX_RETRIES

C8_Witness ==
    /\ cameraRetryCount > MAX_RETRIES
    /\ scanStats.cameraErrors = cameraRetryCount - MAX_RETRIES

\* C9: a start that fails with a permission error (the permission query
\* answers 'denied', or getUserMedia rejects with NotAllowedError) is
\* escalated at once: the Error state is shown, the retry counter is not
\* touched and no retry is scheduled.
C9_PermissionDeniedIsTerminal ==
    [][(\/ \E c \in CallIds :
             /\ At(c, "permission")
             /\ Commit(permissionSettled(St, c, "denied"))
        \/ \E c \in CallIds :
             /\ At(c, "getUserMedia")
             /\ Commit(catchStartError(St, c, "NotAllowedError")))
           => (/\ cameraStatus' = "error"
               /\ cameraRetryCount' = cameraRetryCount
               /\ timers' = timers)]_vars

\* C10: the auto-stop timer handle is non-null if and only if the session is
\* Active.
C10_TimeoutArmedIffActive == scanTimeout <=> isScanning

\* C11: a stopCamera call that stops an Active session cancels every pending
\* callback that could acquire the camera or touch the session later: no scan
\* tick, no auto-stop timer, no restart timer and no retry timer is pending
\* after it.
C11_StopCancelsEverything ==
    [][(isScanning /\ Commit(stopCamera(St)))
          => (/\ rafPending' = {}
              /\ \A t \in BagToSet(timers') :
                    t.kind \notin {"scanTimeout", "restart", "retry"})]_vars

\* C12: a session that is Active and has finished starting has its auto-stop
\* timer pending, so that it is stopped SCAN_TIMEOUT later; no auto-stop timer
\* is pending while the session is not Active (none fires after a stop); and
\* the timer firing on an Active session makes it Idle, releases its stream
\* and clears the handle.
C12_AutoStop ==
    /\ []((isScanning /\ \A c \in CallIds : ~At(c, "enumerateDevices"))
              => Pending("scanTimeout") # {})
    /\ [](~isScanning => Pending("scanTimeout") = {})
    /\ [][\A t \in Pending("scanTimeout") :
             (isScanning /\ Commit(stopCamera(Fired(t))))
                 => (/\ ~isScanning'
                     /\ videoStream \notin openStreams'
                     /\ videoStream' = 0
                     /\ ~scanTimeout'
                     /\ now' >= t.due)]_vars

\* C13: any two consecutive jsQR calls are at least SCAN_INTERVAL apart, so
\* jsQR is called at most once in any window of SCAN_INTERVAL, whatever ticks,
\* stops and restarts happen in between.
C13_DecodeThrottled ==
    observed.minDecodeGap = -1 \/ observed.minDecodeGap >= SCAN_INTERVAL

\* jsQR has been called twice, exactly SCAN_INTERVAL apart, and the tick that
\* is pending would be throttled if it ran now
C13_Witness ==
    /\ observed.minDecodeGap = SCAN_INTERVAL
    /\ isScanning
    /\ rafPending # {}
    /\ throttled(St)

\* C14: every payload handed to fetchStudentData is one that validateQRCode
\* accepts, in its trimmed form; and each fetchStudentData call is made for a
\* payload, decoded by the scan loop in that step or entered manually, for
\* which validateQRCode returned valid, with the cleanData it returned.
C14_OnlyValidDispatched ==
    /\ [](\A k \in 1..Len(dispatched) :
             /\ validateQRCode(dispatched[k].data).valid
             /\ dispatched[k].data = trim(dispatched[k].data))
    /\ [][Len(dispatched') > Len(dispatched)
            => /\ Len(dispatched') = Len(dispatched) + 1
               /\ \E raw \in IF Len(decoded') > Len(decoded)
                              THEN {decoded'[Len(decoded')].data}
                              ELSE {trim(text) : text \in ManualTexts} :
                     /\ validateQRCode(raw).valid
                     /\ dispatched'[Len(dispatched')].data =
                            validateQRCode(raw).cleanData]_vars

\* the scan loop has decoded a payload validateQRCode rejects, which was not
\* dispatched, and a valid payload with trailing white space, which was
\* dispatched trimmed
C14_Witness ==
    /\ \E k \in 1..Len(decoded) : decoded[k].data = ShortAb
    /\ \E k \in 1..Len(decoded) : decoded[k].data = Student42Line
    /\ scanStats.failedScans = 1
    /\ Len(dispatched) = 1
    /\ dispatched[1].data = Student42

\* what the claim C15 says validate accepts, written from its words
Trimmed(str) ==
    IF \A i \in 1..Len(str) : str[i] \in WhiteSpace
    THEN << >>
    ELSE SubSeq(str,
                CHOOSE i \in 1..Len(str) :
                    /\ str[i] \notin WhiteSpace
                    /\ \A j \in 1..(i - 1) : str[j] \in WhiteSpace,
                CHOOSE i \in 1..Len(str) :
                    /\ str[i] \notin WhiteSpace
                    /\ \A j \in (i + 1)..Len(str) : str[j] \in WhiteSpace)
StudentShape(str) ==
    \E n \in 1..Len(str) :
        /\ Len(str) = 8 + n
        /\ <<str[1], str[2], str[3], str[4], str[5], str[6], str[7], str[8]>>
               = <<"S", "T", "U", "D", "E", "N", "T", "_">>
        /\ \A i \in 9..(8 + n) : str[i] \in Digits
CodeShape(str) ==
    /\ Len(str) \in 5..50
    /\ {str[i] : i \in 1..Len(str)}
           \subseteq (UpperCase \cup LowerCase \cup Digits \cup {"_", "-"})
Accepted(str) ==
    LET payload == Trimmed(str)
    IN /\ payload # << >>
       /\ Len(payload) <= 1000
       /\ StudentShape(payload) \/ CodeShape(payload)

\* C15: validateQRCode returns valid exactly for the payloads that, trimmed,
\* are non-empty, at most 1000 characters long and of an allow-listed shape,
\* and returns the trimmed payload as cleanData; "" and a payload of 1001
\* characters are rejected, "STUDENT_12345" is accepted, "ab" is rejected.
C15_ValidateAccepts ==
    qrResult # NotValidated
        => /\ qrResult.valid <=> Accepted(qrInput)
           /\ qrResult.valid => qrResult.cleanData = Trimmed(qrInput)
           /\ qrInput = << >> => ~qrResult.valid
           /\ Len(Trimmed(qrInput)) = 1001 => ~qrResult.valid
           /\ qrInput = Student12345 => qrResult.valid
           /\ qrInput = ShortAb => ~qrResult.valid

\* a payload of STUDENT_ and 993 digits (1001 characters) has been rejected
C15_Witness ==
    /\ qrResult # NotValidated
    /\ qrInput = StudentPrefix \o Run("7", 993)
    /\ ~qrResult.valid

\* C16: a startCameraWithRetry call made while the session is Active changes
\* nothing but the bookkeeping of the call, and when it resumes after its
\* permission query (whatever the answer) it returns without requesting a
\* device, reports no error, and leaves the stream, the session state, the
\* auto-stop timer and the statistics as they were.
C16_StartIsNoOpWhenActive ==
    [][(isScanning /\ UserStart)
          => \A permissionState \in PermissionStates :
                LET s == permissionSettled(St', nCalls', permissionState)
                IN /\ s.calls[nCalls'].pc = "done"
                   /\ s.cameraStatus = cameraStatus
                   /\ s.scanStats = scanStats
                   /\ s.isScanning
                   /\ s.videoStream = videoStream
                   /\ s.openStreams = openStreams
                   /\ s.scanTimeout = scanTimeout
                   /\ s.timers = timers]_vars

\* C17: once the retries are used up (the counter is above MAX_RETRIES), the
\* next start, which only the user can make, has the full retry budget again:
\* its failure schedules a retry and is not reported as a camera error.
C17_RestartRestoresRetries ==
    [][(cameraRetryCount > MAX_RETRIES /\ CatchStep)
          => (/\ \E t \in BagToSet(timers') : t.kind = "retry"
              /\ scanStats'.cameraErrors = scanStats.cameraErrors
              /\ cameraStatus' # "error")]_vars

\* C18: at most one start is between the getUserMedia request and the session
\* becoming Active or the start failing: no getUserMedia is requested while
\* another start is waiting for its stream or for the video to become ready.
C18_OneAcquisitionInFlight ==
    Cardinality({c \in CallIds : calls[c].pc \in {"getUserMedia", "videoReady"}})
        <= 1

\* C19: a stopCamera call made while a start is in progress (suspended at
\* device enumeration, at getUserMedia or at the readiness wait) cancels that
\* start and leaves the session Idle: no start in progress, no stream open,
\* no scan tick pending, no auto-stop timer armed.
C19_StopCancelsStart ==
    (\E c \in CallIds :
        calls[c].pc \in {"getBestCamera", "getUserMedia", "videoReady"})
        => LET s == stopCamera(St)
           IN /\ \A c \in CallIds :
                    s.calls[c].pc \notin
                        {"getBestCamera", "getUserMedia", "videoReady"}
              /\ ~s.isScanning
              /\ s.openStreams = {}
              /\ s.rafPending = {}
              /\ ~s.scanTimeout

\* C20: processQRCode never runs with isScanning true, jsQR is never called
\* with isScanning false, the task in which processQRCode has run (for a
\* decoded or a manually entered payload) ends with isScanning false, and the
\* task in which jsQR returned a payload has released the session's stream
\* and cancelled the scan tick it had stored.
C20_StoppedBeforeProcessing ==
    /\ [](~observed.processedWhileScanning /\ ~observed.decodedWhileIdle)
    /\ [][scanStats'.totalScans > scanStats.totalScans => ~isScanning']_vars
    /\ [][Len(decoded') > Len(decoded)
            => (/\ scanStats'.totalScans > scanStats.totalScans
                /\ videoStream' = 0
                /\ animationFrame' = 0)]_vars

\* the scan loop has decoded a payload that was processed and dispatched, and
\* a manually entered payload has been processed as well
C20_Witness ==
    /\ Len(decoded) = 1
    /\ observed.lastDecodeAt > 0
    /\ Len(dispatched) >= 1
    /\ dispatched[1].at >= decoded[1].at
    /\ scanStats.totalScans = 2
    /\ ~isScanning

\* a task has processed a payload and not dispatched it
Rejection ==
    /\ scanStats'.totalScans > scanStats.totalScans
    /\ Len(dispatched') = Len(dispatched)

\* C21: every rejection of a payload counts one failed scan (and no
\* successful one) and schedules one restart timer, RESTART_DELAY later; and,
\* when every timer callback runs and every start succeeds, a session with a
\* restart pending becomes Active again, and no error is ever reported.
C21_RejectionRestarts ==
    /\ [][Rejection
            => LET restart == Timer("restart", now' + RESTART_DELAY)
               IN /\ scanStats'.totalScans = scanStats.totalScans + 1
                  /\ scanStats'.failedScans = scanStats.failedScans + 1
                  /\ scanStats'.successfulScans = scanStats.successfulScans
                  /\ CopiesIn(restart, timers') = CopiesIn(restart, timers) + 1
                  /\ \A t \in BagToSet(timers') :
                        (t.kind = "restart" /\ t # restart)
                            => CopiesIn(t, timers') = CopiesIn(t, timers)
                  /\ ~isScanning']_vars
    /\ (Pending("restart") # {}) ~> isScanning
    /\ [](cameraStatus # "error" /\ scanStats.cameraErrors = 0)

\* a payload was rejected, the restart timer has run and started the camera,
\* and the session is Active again
C21_Witness ==
    /\ scanStats.failedScans >= 1
    /\ Pending("restart") = {}
    /\ nCalls >= 2
    /\ isScanning
    /\ cameraStatus = "success"
    /\ scanStats.cameraErrors = 0

\* C22: currentFacingMode changes only in a switchCamera task.
C22_FacingChangedOnlyBySwitch ==
    [][currentFacingMode' # currentFacingMode => SwitchCamera]_vars

====
